---- MODULE Spec2Model ----
(***************************************************************************)
(* The signaling / transcription relay of src/server.js as a state machine.*)
(* One action per socket.io event handler, provider stream callback and    *)
(* timer callback.  The five process-wide maps of server.js (lines 72-76)  *)
(* are partial functions; a JavaScript Map.get that misses is a key that   *)
(* is not in the DOMAIN.                                                   *)
(***************************************************************************)
EXTENDS Naturals, Sequences, FiniteSets

VARIABLES
    sockets,               \* socket id -> "none" | "open" | "closed"
    usernameToSocketId,    \* server.js:74
    socketIdToUsername,    \* server.js:75
    userLanguages,         \* server.js:73
    activeCalls,           \* server.js:76
    activeSpeechStreams,   \* server.js:72, socket id -> index into streams
    streams,               \* the provider streams that can still run a callback
    inflight,              \* translateText calls awaiting their response
    offers,                \* callUser events delivered to a callee and not yet answered
    event,                 \* the reaction that ran last, with its inputs
    emitted,               \* the outbound socket.io events of that reaction
    steps                  \* the number of reactions run so far

vars == <<sockets, usernameToSocketId, socketIdToUsername, userLanguages,
          activeCalls, activeSpeechStreams, streams, inflight, offers,
          event, emitted, steps>>

maps == <<usernameToSocketId, socketIdToUsername, userLanguages, activeCalls,
          activeSpeechStreams>>

(***************************************************************************)
(* Bounds of the model and the finite input sets.                          *)
(***************************************************************************)
MaxSteps == 8
MaxStreams == 2
MaxInFlight == 1
MaxOffers == 1

\* Socket ids are opaque; they are handed out in this order.
SocketIds == <<"s1", "s2", "s3">>
Conns == {SocketIds[i] : i \in 1..Len(SocketIds)}
Names == {"alice", "bob"}

\* A language tag is the sequence of its subtags: en-US is <<"en", "US">>.
EnUS == <<"en", "US">>
HeIL == <<"he", "IL">>
RuRU == <<"ru", "RU">>
Es   == <<"es">>

\* JavaScript's undefined (a missing field); no language tag is empty.
Undefined == <<>>

(***************************************************************************)
(* Map helpers: Map.has / Map.set / Map.delete.                            *)
(***************************************************************************)
EmptyMap == [k \in {} |-> k]
Has(m, k) == k \in DOMAIN m
MapSet(m, k, v) == [x \in (DOMAIN m) \cup {k} |-> IF x = k THEN v ELSE m[x]]
MapDelete(m, k) == [x \in (DOMAIN m) \ {k} |-> m[x]]

\* Map.get of a socket id or a name: a miss is JavaScript's undefined, here
\* a key that no map holds.
NoKey == "undefined"
Get(m, k) == IF Has(m, k) THEN m[k] ELSE NoKey

\* Texts are sequences of words; the provider may deliver an empty transcript.
NoText == <<>>
Hello == <<"hello">>

\* The reaction that ran last: the handler, the socket it ran for (id),
\* whether an answer met an outstanding call request (matched), the chunk
\* size (bytes), the transcript event (the stream it came from, text, isFinal,
\* detected language), and what the reaction did to the providers: the stream
\* it opened (opened), the stream it wrote the chunk to (wrote) and the
\* translateText calls it issued (calls).
NoEvent == [type |-> "init", id |-> "-", matched |-> FALSE, bytes |-> 0,
            stream |-> 0, text |-> NoText, isFinal |-> FALSE, detected |-> Undefined,
            opened |-> 0, wrote |-> 0, calls |-> {}]

Ev(type, id) == [NoEvent EXCEPT !.type = type, !.id = id]

\* An outbound event.  `to' is the socket that receives it.
Msg(type, to, from, text, isFinal) ==
    [type |-> type, to |-> to, from |-> from, text |-> text, isFinal |-> isFinal]

\* io.to(id).emit / socket.emit: delivered only while the socket is connected.
EmitTo(id, type, from) ==
    IF sockets[id] = "open" THEN {Msg(type, id, from, NoText, FALSE)} ELSE {}

\* io.emit: delivered to every connected socket.
Broadcast(type, from, text, isFinal) ==
    {Msg(type, d, from, text, isFinal) : d \in {x \in Conns : sockets[x] = "open"}}

\* Runs are explored up to MaxSteps reactions; every reaction counts as one.
Step == steps < MaxSteps /\ steps' = steps + 1

Init ==
    /\ sockets = [c \in Conns |-> "none"]
    /\ usernameToSocketId = EmptyMap
    /\ socketIdToUsername = EmptyMap
    /\ userLanguages = EmptyMap
    /\ activeCalls = EmptyMap
    /\ activeSpeechStreams = EmptyMap
    /\ streams = EmptyMap
    /\ inflight = <<>>
    /\ offers = {}
    /\ event = NoEvent
    /\ emitted = {}
    /\ steps = 0

(***************************************************************************)
(* io.on('connection'): a new socket, in no map.                           *)
(***************************************************************************)
Connect(c) ==
    /\ sockets[c] = "none"
    /\ Step
    /\ \A i, j \in 1..Len(SocketIds) :
          (i < j /\ SocketIds[j] = c) => sockets[SocketIds[i]] # "none"
    /\ sockets' = [sockets EXCEPT ![c] = "open"]
    /\ event' = Ev("connection", c)
    /\ emitted' = {}
    /\ UNCHANGED <<maps, streams, inflight, offers>>

(***************************************************************************)
(* socket.on('registerUsername')                                           *)
(***************************************************************************)
DefaultLangs ==
    [sourceLanguage |-> EnUS, targetLanguage |-> Es,
     sttSourceLanguages |-> <<EnUS, HeIL, RuRU>>]

\* The check of line 83 left out: every registration goes through.
NameTakenFree(username) == FALSE

NameTaken(username) == Has(usernameToSocketId, username)

RegisterUsername(c, username) ==
    /\ sockets[c] = "open"
    /\ Step
    /\ event' = Ev("registerUsername", c)
    /\ IF NameTaken(username)
       THEN /\ emitted' = EmitTo(c, "registrationFailed", username)
            /\ UNCHANGED <<usernameToSocketId, socketIdToUsername, userLanguages>>
       ELSE /\ usernameToSocketId' = MapSet(usernameToSocketId, username, c)
            /\ socketIdToUsername' = MapSet(socketIdToUsername, c, username)
            /\ userLanguages' = MapSet(userLanguages, c, DefaultLangs)
            /\ emitted' = EmitTo(c, "registrationSuccess", username)
    /\ UNCHANGED <<sockets, activeCalls, activeSpeechStreams, streams, inflight, offers>>

(***************************************************************************)
(* socket.on('callUser')                                                   *)
(***************************************************************************)
CallUser(c, userToCall) ==
    /\ sockets[c] = "open"
    /\ Step
    /\ event' = Ev("callUser", c)
    /\ IF ~Has(socketIdToUsername, c)
       THEN /\ emitted' = {}
            /\ UNCHANGED offers
       ELSE LET callerUsername == socketIdToUsername[c] IN
            IF Has(usernameToSocketId, userToCall)
            THEN LET calleeSocketId == usernameToSocketId[userToCall]
                     offer == [from |-> c, to |-> calleeSocketId] IN
                 /\ offer \in offers \/ Cardinality(offers) < MaxOffers
                 /\ emitted' = EmitTo(calleeSocketId, "callUser", callerUsername)
                 /\ offers' = IF sockets[calleeSocketId] = "open"
                              THEN offers \cup {offer} ELSE offers
            ELSE /\ emitted' = EmitTo(c, "callFailed", userToCall)
                 /\ UNCHANGED offers
    /\ UNCHANGED <<sockets, maps, streams, inflight>>

(***************************************************************************)
(* socket.on('answerCall')                                                 *)
(***************************************************************************)
AnswerTargetFound(to) == Has(usernameToSocketId, to)

\* Lines 126-127 with the two names exchanged.
AnswerSwapped(calls, callerSocketId, calleeUsername, id, to) ==
    MapSet(MapSet(calls, callerSocketId, to), id, calleeUsername)

AnswerRecorded(calls, callerSocketId, calleeUsername, id, to) ==
    MapSet(MapSet(calls, callerSocketId, calleeUsername), id, to)

AnswerCall(c, to) ==
    /\ sockets[c] = "open"
    /\ Step
    /\ event' = [Ev("answerCall", c) EXCEPT
                    !.matched = [from |-> Get(usernameToSocketId, to), to |-> c] \in offers]
    /\ IF ~Has(socketIdToUsername, c)
       THEN /\ emitted' = {}
            /\ UNCHANGED <<activeCalls, offers>>
       ELSE LET calleeUsername == socketIdToUsername[c] IN
            IF AnswerTargetFound(to)
            THEN LET callerSocketId == usernameToSocketId[to] IN
                 /\ emitted' = EmitTo(callerSocketId, "callAccepted", calleeUsername)
                 /\ activeCalls' = AnswerRecorded(activeCalls, callerSocketId,
                                                  calleeUsername, c, to)
                 /\ offers' = offers \ {[from |-> callerSocketId, to |-> c]}
            ELSE /\ emitted' = {}
                 /\ UNCHANGED <<activeCalls, offers>>
    /\ UNCHANGED <<sockets, usernameToSocketId, socketIdToUsername, userLanguages,
                   activeSpeechStreams, streams, inflight>>

(***************************************************************************)
(* socket.on('updateLanguageSettings')                                     *)
(***************************************************************************)
\* The settings a client may send.
LangInputs ==
    { [sourceLanguage |-> EnUS, targetLanguage |-> Es,
       sttSourceLanguages |-> <<EnUS, HeIL, RuRU>>],
      [sourceLanguage |-> HeIL, targetLanguage |-> HeIL,
       sttSourceLanguages |-> <<HeIL, EnUS>>] }

\* obj.field of a JavaScript object: undefined when the object has no such field.
Field(obj, f) == IF f \in DOMAIN obj THEN obj[f] ELSE Undefined

\* userLanguages.get(socketId) || {}
LangsOrEmpty(id) == IF Has(userLanguages, id) THEN userLanguages[id] ELSE EmptyMap

\* JSON.stringify of an array of language tags (undefined for undefined): the
\* text, token by token.  No array a client sends is empty.
RECURSIVE JoinTag(_)
JoinTag(tag) ==
    IF Len(tag) = 0 THEN <<>>
    ELSE IF Len(tag) = 1 THEN <<tag[1]>>
    ELSE <<tag[1], "-">> \o JoinTag(Tail(tag))

RECURSIVE JoinTags(_)
JoinTags(list) ==
    IF Len(list) = 0 THEN <<>>
    ELSE IF Len(list) = 1 THEN <<"\"">> \o JoinTag(list[1]) \o <<"\"">>
    ELSE <<"\"">> \o JoinTag(list[1]) \o <<"\"", ",">> \o JoinTags(Tail(list))

Stringify(v) == IF v = Undefined THEN Undefined ELSE <<"[">> \o JoinTags(v) \o <<"]">>

\* line 137
SettingsChanged(id, data) ==
    \/ Field(LangsOrEmpty(id), "source") # data.sourceLanguage
    \/ Stringify(Field(LangsOrEmpty(id), "sttSourceLanguages"))
          # Stringify(data.sttSourceLanguages)

\* stream.destroy()
Destroy(strs, s) == [strs EXCEPT ![s].destroyed = TRUE]

\* A destroyed stream whose renewal timer is no longer armed runs no callback
\* again and is unreachable: it is dropped from the state.
Reap(strs) ==
    [s \in {x \in DOMAIN strs : ~strs[x].destroyed \/ strs[x].timer = "armed"} |-> strs[s]]

UpdateLanguageSettings(c, data) ==
    /\ sockets[c] = "open"
    /\ Step
    /\ event' = Ev("updateLanguageSettings", c)
    /\ emitted' = {}
    /\ userLanguages' = MapSet(userLanguages, c, data)
    /\ IF SettingsChanged(c, data) /\ Has(activeSpeechStreams, c)
       THEN /\ streams' = Reap(Destroy(streams, activeSpeechStreams[c]))
            /\ activeSpeechStreams' = MapDelete(activeSpeechStreams, c)
       ELSE UNCHANGED <<streams, activeSpeechStreams>>
    /\ UNCHANGED <<sockets, usernameToSocketId, socketIdToUsername, activeCalls,
                   inflight, offers>>

(***************************************************************************)
(* socket.on('audioChunk')                                                 *)
(***************************************************************************)
\* The guard of line 161 left out.
RemoteAlways(id) == TRUE

\* lines 157-163: the peer named by the call association is in the directory
\* and has language settings.
RemoteResolved(id) ==
    /\ Has(activeCalls, id)
    /\ Has(usernameToSocketId, activeCalls[id])
    /\ Has(userLanguages, usernameToSocketId[activeCalls[id]])

\* const remoteLangs = userLanguages.get(usernameToSocketId.get(activeCalls.get(socketId)))
RemoteLangs(id) ==
    LET remoteSocketId == Get(usernameToSocketId, Get(activeCalls, id)) IN
    IF Has(userLanguages, remoteSocketId) THEN userLanguages[remoteSocketId] ELSE EmptyMap

\* currentLangs.sttSourceLanguages.filter(lang => lang !== currentLangs.sourceLanguage)
Alternatives(langs) ==
    SelectSeq(langs.sttSourceLanguages, LAMBDA lang : lang # langs.sourceLanguage)

\* Lines 167-178 with the request built from the registration defaults.
NewStreamDefault(id) ==
    [socketId |-> id,
     username |-> socketIdToUsername[id],
     currentLangs |-> DefaultLangs,
     remoteLangs |-> RemoteLangs(id),
     languageCode |-> DefaultLangs.sourceLanguage,
     alternativeLanguageCodes |-> Alternatives(DefaultLangs),
     destroyed |-> FALSE,
     errored |-> FALSE,
     timer |-> "armed"]

\* The stream opened by speechClient.streamingRecognize, with what its
\* callbacks close over and the renewal timer armed for it.
NewStream(id) ==
    [socketId |-> id,
     username |-> socketIdToUsername[id],
     currentLangs |-> userLanguages[id],
     remoteLangs |-> RemoteLangs(id),
     languageCode |-> userLanguages[id].sourceLanguage,
     alternativeLanguageCodes |-> Alternatives(userLanguages[id]),
     destroyed |-> FALSE,
     errored |-> FALSE,
     timer |-> "armed"]

\* Line 236 left out together with the write: nothing reaches the provider.
WriteTargetNone(strs, live, id) == 0

\* lines 235-238: the stream the chunk is written to, 0 for none.
WriteTarget(strs, live, id) ==
    IF Has(live, id) /\ ~strs[live[id]].destroyed THEN live[id] ELSE 0

\* The handle of the next stream opened.
FreeIds == (1..MaxStreams) \ DOMAIN streams
NextId == CHOOSE i \in FreeIds : \A j \in FreeIds : i <= j

AudioChunk(c, bytes) ==
    /\ sockets[c] = "open"
    /\ Step
    /\ emitted' = {}
    /\ IF \/ ~Has(userLanguages, c) \/ ~Has(socketIdToUsername, c)
          \/ bytes = 0
          \/ ~RemoteResolved(c)
       THEN /\ event' = [Ev("audioChunk", c) EXCEPT !.bytes = bytes]
            /\ UNCHANGED <<streams, activeSpeechStreams>>
       ELSE IF ~Has(activeSpeechStreams, c)
       THEN /\ FreeIds # {}
            /\ streams' = MapSet(streams, NextId, NewStream(c))
            /\ activeSpeechStreams' = MapSet(activeSpeechStreams, c, NextId)
            /\ event' = [Ev("audioChunk", c) EXCEPT !.bytes = bytes,
                            !.opened = NextId,
                            !.wrote = WriteTarget(streams', activeSpeechStreams', c)]
       ELSE /\ event' = [Ev("audioChunk", c) EXCEPT !.bytes = bytes,
                            !.wrote = WriteTarget(streams, activeSpeechStreams, c)]
            /\ UNCHANGED <<streams, activeSpeechStreams>>
    /\ UNCHANGED <<sockets, usernameToSocketId, socketIdToUsername, userLanguages,
                   activeCalls, inflight, offers>>

(***************************************************************************)
(* handleDisconnect, run by 'disconnectCall' and by 'disconnect', followed *)
(* by the clearTimeout listeners that audioChunk added for every stream it *)
(* opened on this socket (lines 231-232).                                  *)
(***************************************************************************)
ClearTimeouts(strs, id) ==
    [s \in DOMAIN strs |->
        IF strs[s].socketId = id /\ strs[s].timer = "armed"
        THEN [strs[s] EXCEPT !.timer = "cleared"] ELSE strs[s]]

\* lines 247-254 and 264: the peer's entry, then the socket's own.
CallsAfterDisconnect(id) ==
    LET peerSocketId == Get(usernameToSocketId, Get(activeCalls, id)) IN
    MapDelete(MapDelete(activeCalls, peerSocketId), id)

PeerNotified(id) ==
    LET peerSocketId == Get(usernameToSocketId, Get(activeCalls, id)) IN
    IF peerSocketId \in Conns THEN EmitTo(peerSocketId, "peerDisconnected", NoKey) ELSE {}

HandleDisconnect(c) ==
    IF ~Has(socketIdToUsername, c)
    THEN /\ emitted' = {}
         /\ streams' = Reap(ClearTimeouts(streams, c))
         /\ UNCHANGED maps
    ELSE /\ emitted' = PeerNotified(c)
         /\ activeCalls' = CallsAfterDisconnect(c)
         /\ streams' = Reap(ClearTimeouts(
                IF Has(activeSpeechStreams, c)
                THEN Destroy(streams, activeSpeechStreams[c]) ELSE streams, c))
         /\ activeSpeechStreams' = MapDelete(activeSpeechStreams, c)
         /\ usernameToSocketId' = MapDelete(usernameToSocketId, socketIdToUsername[c])
         /\ socketIdToUsername' = MapDelete(socketIdToUsername, c)
         /\ userLanguages' = MapDelete(userLanguages, c)

\* The offers a socket made or received lapse when it ends its call or leaves.
OffersWithout(id) == {o \in offers : o.from # id /\ o.to # id}

\* socket.on('disconnectCall'): the socket stays connected.
DisconnectCall(c) ==
    /\ sockets[c] = "open"
    /\ Step
    /\ event' = Ev("disconnectCall", c)
    /\ HandleDisconnect(c)
    /\ offers' = OffersWithout(c)
    /\ UNCHANGED <<sockets, inflight>>

\* socket.on('disconnect'): the transport is gone; no further event on c.
Disconnect(c) ==
    /\ sockets[c] = "open"
    /\ Step
    /\ sockets' = [sockets EXCEPT ![c] = "closed"]
    /\ event' = Ev("disconnect", c)
    /\ HandleDisconnect(c)
    /\ offers' = OffersWithout(c)
    /\ UNCHANGED inflight

(***************************************************************************)
(* The renewal timer's callback (lines 221-227).                           *)
(***************************************************************************)
TimerFire(s) ==
    /\ s \in DOMAIN streams
    /\ Step
    /\ streams[s].timer = "armed"
    /\ streams' = Reap([streams EXCEPT ![s].destroyed = TRUE, ![s].timer = "fired"])
    /\ activeSpeechStreams' = MapDelete(activeSpeechStreams, streams[s].socketId)
    /\ event' = Ev("timeout", streams[s].socketId)
    /\ emitted' = {}
    /\ UNCHANGED <<sockets, usernameToSocketId, socketIdToUsername, userLanguages,
                   activeCalls, inflight, offers>>

(***************************************************************************)
(* recognizeStream.on('error') (lines 179-187).  A Node stream that emits  *)
(* 'error' has been destroyed by the stream machinery and keeps the error  *)
(* in its `errored' property; the handler itself                           *)
(* only removes the socket's entry from activeSpeechStreams.               *)
(***************************************************************************)
StreamError(s) ==
    /\ s \in DOMAIN streams
    /\ Step
    /\ ~streams[s].destroyed
    /\ streams' = Reap([Destroy(streams, s) EXCEPT ![s].errored = TRUE])
    /\ activeSpeechStreams' = MapDelete(activeSpeechStreams, streams[s].socketId)
    /\ event' = Ev("error", streams[s].socketId)
    /\ emitted' = {}
    /\ UNCHANGED <<sockets, usernameToSocketId, socketIdToUsername, userLanguages,
                   activeCalls, inflight, offers>>

(***************************************************************************)
(* recognizeStream.on('data') (lines 188-216) and the translateText call   *)
(* it awaits.  currentLangs, remoteLangs and username are the values the   *)
(* stream closed over when audioChunk opened it.                           *)
(***************************************************************************)
\* tag.split('-')[0]
Primary(tag) == tag[1]

\* The languages the provider may report for a transcript of this stream.
Detectable(st) == {st.languageCode} \cup
                  {st.alternativeLanguageCodes[i] : i \in 1..Len(st.alternativeLanguageCodes)}

\* Lines 194-199 without the isFinal conjunct of line 195.
NeedsTranslationInterim(st, transcript, isFinal, detected) ==
    /\ transcript # NoText
    /\ Field(st.remoteLangs, "targetLanguage") # Undefined
    /\ Primary(st.currentLangs.sourceLanguage) # Primary(st.remoteLangs.targetLanguage)

\* lines 194-199
NeedsTranslation(st, transcript, isFinal, detected) ==
    /\ isFinal
    /\ transcript # NoText
    /\ Field(st.remoteLangs, "targetLanguage") # Undefined
    /\ Primary(st.currentLangs.sourceLanguage) # Primary(st.remoteLangs.targetLanguage)

\* lines 201-206: the request handed to translationClient.translateText
TranslateRequest(st, transcript) ==
    [contents |-> transcript,
     sourceLanguageCode |-> Primary(st.currentLangs.sourceLanguage),
     targetLanguageCode |-> Primary(st.remoteLangs.targetLanguage)]

\* What the translation provider answers: some text in the target language.
Translated(call) ==
    <<call.targetLanguageCode, "for", call.sourceLanguageCode>> \o call.contents

Transcripts == {NoText, Hello}

StreamData(s, hasResult, transcript, isFinal, detected) ==
    /\ s \in DOMAIN streams
    /\ Step
    /\ ~streams[s].destroyed
    /\ detected \in Detectable(streams[s])
    /\ ~hasResult => (transcript = NoText /\ ~isFinal /\ detected = streams[s].languageCode)
    /\ LET st == streams[s]
           ev == [Ev("data", st.socketId) EXCEPT !.stream = s, !.text = transcript, !.isFinal = isFinal, !.detected = detected]
       IN  IF ~hasResult
           THEN /\ event' = [ev EXCEPT !.type = "dataNoResult"]
                /\ emitted' = {}
                /\ UNCHANGED inflight
           ELSE IF NeedsTranslation(st, transcript, isFinal, detected)
           THEN /\ Len(inflight) < MaxInFlight
                /\ event' = [ev EXCEPT !.calls = {TranslateRequest(st, transcript)}]
                /\ emitted' = {}
                /\ inflight' = Append(inflight,
                                 [call |-> TranslateRequest(st, transcript),
                                  socketId |-> st.socketId, username |-> st.username,
                                  transcript |-> transcript, isFinal |-> isFinal,
                                  detected |-> detected])
           ELSE /\ event' = ev
                /\ emitted' = Broadcast("liveSubtitle", st.username, transcript, isFinal)
                /\ UNCHANGED inflight
    /\ UNCHANGED <<sockets, maps, streams, offers>>

\* The catch block of lines 208-213 replaced by one that blanks the text.
TranslatedTextLost(p, ok) == IF ok THEN Translated(p.call) ELSE NoText

\* translatedText at line 215: the response's text (line 207), or the
\* transcript it was initialised with (line 193) when translateText threw.
TranslatedText(p, ok) == IF ok THEN Translated(p.call) ELSE p.transcript

RemoveAt(seq, i) == SubSeq(seq, 1, i - 1) \o SubSeq(seq, i + 1, Len(seq))

\* The awaited translateText call settles: line 207 on success, the catch
\* block (208-213) on failure; then line 215.
TranslateSettled(i, ok) ==
    /\ i \in DOMAIN inflight
    /\ Step
    /\ LET p == inflight[i]
           translatedText == TranslatedText(p, ok)
       IN  /\ event' = [Ev(IF ok THEN "translated" ELSE "translateFailed", p.socketId)
                          EXCEPT !.text = p.transcript,
                                 !.isFinal = p.isFinal, !.detected = p.detected]
           /\ emitted' = Broadcast("liveSubtitle", p.username, translatedText, p.isFinal)
    /\ inflight' = RemoveAt(inflight, i)
    /\ UNCHANGED <<sockets, maps, streams, offers>>

(***************************************************************************)
(* The specification.                                                      *)
(***************************************************************************)
Next ==
    \/ \E c \in Conns : Connect(c)
    \/ \E c \in Conns, username \in Names : RegisterUsername(c, username)
    \/ \E c \in Conns, userToCall \in Names : CallUser(c, userToCall)
    \/ \E c \in Conns, to \in Names : AnswerCall(c, to)
    \/ \E c \in Conns, data \in LangInputs : UpdateLanguageSettings(c, data)
    \/ \E c \in Conns, bytes \in {0, 1} : AudioChunk(c, bytes)
    \/ \E c \in Conns : DisconnectCall(c)
    \/ \E c \in Conns : Disconnect(c)
    \/ \E s \in 1..MaxStreams : TimerFire(s)
    \/ \E s \in 1..MaxStreams : StreamError(s)
    \/ \E s \in 1..MaxStreams, hasResult, isFinal \in BOOLEAN,
          transcript \in Transcripts, detected \in {EnUS, HeIL} :
          StreamData(s, hasResult, transcript, isFinal, detected)
    \/ \E i \in 1..MaxInFlight, ok \in BOOLEAN : TranslateSettled(i, ok)

Spec == Init /\ [][Next]_vars

(***************************************************************************)
(* The claims.  "Present" is read as the Presence Directory reads it: a    *)
(* name is present when usernameToSocketId holds it.                       *)
(***************************************************************************)

NoSharedName ==
    \A c1, c2 \in DOMAIN socketIdToUsername :
        socketIdToUsername[c1] = socketIdToUsername[c2] => c1 = c2

\* The name -> socket, socket -> name and language bindings.
bindings == <<usernameToSocketId, socketIdToUsername, userLanguages>>

TakenRegistrationFails ==
    \A c \in Conns, username \in Names :
        ( /\ RegisterUsername(c, username)
          /\ Has(usernameToSocketId, username)
          /\ sockets[usernameToSocketId[username]] = "open" )
        => /\ emitted' = {Msg("registrationFailed", c, username, NoText, FALSE)}
           /\ UNCHANGED bindings

\* C1: no two live connections ever share a display name, and a
\* registerUsername for a name bound to a live connection fails with
\* registrationFailed and leaves every name, socket and language binding as
\* it was.
C1_UniqueNames == [](NoSharedName) /\ [][TakenRegistrationFails]_vars

\* A registration has just been refused because another socket holds the name.
C1_Witness ==
    /\ event.type = "registerUsername"
    /\ \E m \in emitted :
          /\ m.type = "registrationFailed" /\ m.to = event.id
          /\ Has(usernameToSocketId, m.from)
          /\ usernameToSocketId[m.from] # event.id
          /\ sockets[usernameToSocketId[m.from]] = "open"

\* The socket is in no map and no name is bound to it.
InNoMap(c) ==
    /\ ~Has(socketIdToUsername, c)
    /\ \A n \in DOMAIN usernameToSocketId : usernameToSocketId[n] # c
    /\ ~Has(userLanguages, c)
    /\ ~Has(activeCalls, c)
    /\ ~Has(activeSpeechStreams, c)

\* After the step, some socket other than c is associated with the name n.
NamedByPeerAfter(c, n) ==
    \E p \in DOMAIN activeCalls' : p # c /\ activeCalls'[p] = n

\* C2: after the disconnect reaction for c, c is in no map (directory in both
\* directions, language settings, call association, live sessions), no peer
\* keeps a call association naming c, and a disconnect reaction for a socket
\* that is already in no map changes no map.
C2_DisconnectClearsAll ==
    [][\A c \in Conns :
          Disconnect(c) =>
             /\ InNoMap(c)'
             /\ Has(socketIdToUsername, c) => ~NamedByPeerAfter(c, socketIdToUsername[c])
             /\ InNoMap(c) => UNCHANGED maps]_vars

\* C3: a connection never has two provider streams that are opened and not
\* destroyed: when a stream is opened for it, every earlier one is destroyed.
C3_OneOpenStreamPerConnection ==
    \A s1, s2 \in DOMAIN streams :
        (s1 # s2 /\ streams[s1].socketId = streams[s2].socketId)
        => (streams[s1].destroyed \/ streams[s2].destroyed)

\* C4: every teardown cancels the session's renewal timer: an armed timer
\* belongs to the stream that is its connection's live session, so a
\* connection has at most one armed timer and a removed session has none.
C4_TimerOnlyForLiveSession ==
    \A s \in DOMAIN streams :
        streams[s].timer = "armed"
        => /\ Has(activeSpeechStreams, streams[s].socketId)
           /\ activeSpeechStreams[streams[s].socketId] = s

\* The socket has no call association, or the name it is associated with is
\* not in the directory.
NotInCall(c) ==
    \/ ~Has(activeCalls, c)
    \/ ~Has(usernameToSocketId, activeCalls[c])

\* C5: an audioChunk on a connection that is not in a call, an empty chunk,
\* and a chunk from an unregistered connection open no provider stream,
\* create no session and are written to no provider stream.
C5_AudioOutsideCallDropped ==
    [][\A c \in Conns, bytes \in {0, 1} :
          ( /\ AudioChunk(c, bytes)
            /\ (NotInCall(c) \/ bytes = 0 \/ ~Has(socketIdToUsername, c)) )
          => /\ streams' = streams
             /\ activeSpeechStreams' = activeSpeechStreams
             /\ event'.opened = 0
             /\ event'.wrote = 0]_vars

\* A registered socket with no call association has just sent a non-empty
\* chunk, and it was dropped.
C5_Witness ==
    /\ event.type = "audioChunk"
    /\ event.bytes = 1
    /\ Has(socketIdToUsername, event.id)
    /\ ~Has(activeCalls, event.id)
    /\ event.opened = 0 /\ event.wrote = 0
    /\ ~Has(activeSpeechStreams, event.id)

\* The display name of a registered socket.
NameOf(c) == socketIdToUsername[c]

\* C6: the call association is symmetric: A is associated with B's display
\* name if and only if B is associated with A's display name.
C6_CallsSymmetric ==
    \A A, B \in DOMAIN socketIdToUsername :
        (Has(activeCalls, A) /\ activeCalls[A] = NameOf(B))
        <=> (Has(activeCalls, B) /\ activeCalls[B] = NameOf(A))

\* C7: an answerCall from B addressed to the name of another connection A
\* changes the call associations only if a call request from A to B is
\* outstanding.
C7_AnswerNeedsOffer ==
    [][\A B \in Conns, to \in Names :
          ( /\ AnswerCall(B, to)
            /\ activeCalls' # activeCalls
            /\ Get(usernameToSocketId, to) # B )
          => [from |-> Get(usernameToSocketId, to), to |-> B] \in offers]_vars

\* C8, the call request: A, registered as a, names b, the display name of B.
CallRequestForwarded ==
    \A A, B \in DOMAIN socketIdToUsername :
        CallUser(A, NameOf(B))
        => /\ emitted' = {Msg("callUser", B, NameOf(A), NoText, FALSE)}
           /\ activeCalls' = activeCalls

\* C8, the answer: B, registered as b, answers the outstanding request of A,
\* registered as a, addressed to a.
CallAnswerRecorded ==
    \A A, B \in DOMAIN socketIdToUsername :
        (AnswerCall(B, NameOf(A)) /\ [from |-> A, to |-> B] \in offers)
        => /\ emitted' = {Msg("callAccepted", A, NameOf(B), NoText, FALSE)}
           /\ Has(activeCalls', A) /\ activeCalls'[A] = NameOf(B)
           /\ Has(activeCalls', B) /\ activeCalls'[B] = NameOf(A)

\* C8, the failure: a registered socket names a name the directory lacks.
CallToAbsentFails ==
    \A A \in DOMAIN socketIdToUsername, n \in Names :
        (CallUser(A, n) /\ ~Has(usernameToSocketId, n))
        => /\ emitted' = {Msg("callFailed", A, n, NoText, FALSE)}
           /\ activeCalls' = activeCalls

\* C8: a call request naming the present name b reaches B with from = a and
\* records nothing; B's answer addressed to a reaches A with from = b and
\* records A -> b and B -> a in that step; a request naming an absent name
\* sends callFailed to the caller alone and records nothing.
C8_CallSetup ==
    [][CallRequestForwarded /\ CallAnswerRecorded /\ CallToAbsentFails]_vars

\* B has just answered the outstanding request of another socket A: A was
\* told, and both entries exist.
C8_Witness ==
    /\ event.type = "answerCall"
    /\ \E m \in emitted :
          /\ m.type = "callAccepted"
          /\ m.to # event.id
          /\ Has(socketIdToUsername, event.id) /\ m.from = NameOf(event.id)
          /\ Has(activeCalls, m.to) /\ activeCalls[m.to] = m.from
          /\ Has(socketIdToUsername, m.to)
          /\ Has(activeCalls, event.id) /\ activeCalls[event.id] = NameOf(m.to)
          /\ event.matched

\* The target language of the peer the speaker is associated with.
PeerTarget(c) == RemoteLangs(c).targetLanguage

\* The transcript event came from a stream of a speaker who is associated
\* with another connection, whose settings are those it had when the stream
\* was opened.
FromSpeakerWithPeer ==
    /\ event.type = "data"
    /\ Has(socketIdToUsername, event.id)
    /\ RemoteResolved(event.id)
    /\ usernameToSocketId[activeCalls[event.id]] # event.id
    /\ Has(streams, event.stream)
    /\ streams[event.stream].remoteLangs = RemoteLangs(event.id)

\* The live captions of one transcript, as forwarded unmodified.
Unmodified == Broadcast("liveSubtitle", NameOf(event.id), event.text, event.isFinal)

\* C9: a final transcript whose detected primary subtag equals the primary
\* subtag of the peer's target language is forwarded unmodified and issues
\* no translation call.
C9_SameLanguageNotTranslated ==
    ( /\ FromSpeakerWithPeer /\ event.isFinal
      /\ Primary(event.detected) = Primary(PeerTarget(event.id)) )
    => (event.calls = {} /\ emitted = Unmodified)

\* C10: a final, non-empty transcript whose detected primary subtag differs
\* from the peer's target primary subtag issues exactly one translation call,
\* from the detected primary subtag to the target primary subtag.
C10_TranslateFromDetected ==
    ( /\ FromSpeakerWithPeer /\ event.isFinal /\ event.text # NoText
      /\ Primary(event.detected) # Primary(PeerTarget(event.id)) )
    => event.calls = {[contents |-> event.text,
                       sourceLanguageCode |-> Primary(event.detected),
                       targetLanguageCode |-> Primary(PeerTarget(event.id))]}

\* The sockets connected when a reaction begins.
Connected == {d \in Conns : sockets[d] = "open"}

\* C11: when the translation call for a final transcript fails, the original
\* transcript is forwarded as one final live caption, and the failure changes
\* no session, call, directory or language state.
C11_FailedTranslationForwardsOriginal ==
    [][\A i \in 1..MaxInFlight :
          TranslateSettled(i, FALSE)
          => /\ emitted' = {Msg("liveSubtitle", d, inflight[i].username,
                                inflight[i].transcript, TRUE) : d \in Connected}
             /\ UNCHANGED <<maps, streams>>]_vars

\* A translation call has just failed and the speaker's words went out.
C11_Witness ==
    /\ event.type = "translateFailed"
    /\ event.text # NoText
    /\ emitted # {}
    /\ \A m \in emitted :
          m.type = "liveSubtitle" /\ m.text = event.text /\ m.isFinal

\* C12: an interim transcript event issues no translation call, whatever the
\* source and target languages are, and is forwarded with its text unmodified.
C12_InterimNeverTranslated ==
    (event.type = "data" /\ ~event.isFinal)
    => /\ event.calls = {}
       /\ inflight = <<>> \/ \A i \in DOMAIN inflight : inflight[i].isFinal
       /\ emitted = {Msg("liveSubtitle", d, streams[event.stream].username,
                         event.text, FALSE) : d \in Connected}

\* An interim transcript in a language other than the peer's target language
\* has just been forwarded as it was.
C12_Witness ==
    /\ event.type = "data" /\ ~event.isFinal
    /\ event.text # NoText
    /\ Primary(streams[event.stream].currentLangs.sourceLanguage)
          # Primary(streams[event.stream].remoteLangs.targetLanguage)
    /\ Primary(event.detected) # Primary(streams[event.stream].remoteLangs.targetLanguage)
    /\ event.calls = {}
    /\ \E m \in emitted : m.text = event.text /\ ~m.isFinal

\* The reaction that ran last delivered live captions of a transcript.
CaptionEvent == event.type \in {"data", "translated", "translateFailed"}

\* The socket the speaker's call association names now, NoKey when none.
PeerOf(c) == Get(usernameToSocketId, Get(activeCalls, c))

\* C13: a live caption of speaker S's transcript is delivered only to S and
\* to the connection S's call association names at delivery time; without a
\* call association it reaches no remote connection.
C13_CaptionsOnlyToCallParties ==
    CaptionEvent
    => \A m \in emitted : m.to = event.id \/ m.to = PeerOf(event.id)

\* C14: the copy of a live caption delivered back to the speaker carries the
\* speaker's own untranslated transcript and the event's finality flag, also
\* when the copy for the peer is translated.
C14_SpeakerEchoUntranslated ==
    (CaptionEvent /\ PeerOf(event.id) \in Conns \ {event.id})
    => \A m \in emitted :
          m.to = event.id => (m.text = event.text /\ m.isFinal = event.isFinal)

\* The socket is registered and its call association names the display name
\* of a registered connection.
InCall(c) ==
    /\ Has(socketIdToUsername, c)
    /\ Has(activeCalls, c)
    /\ Has(usernameToSocketId, activeCalls[c])
    /\ Has(socketIdToUsername, PeerOf(c))

\* C15: for a connection in a call, every non-empty audio chunk is written,
\* in the reaction that receives it, to a provider stream of that connection
\* that is open and is its live session; so the chunks reach the provider in
\* arrival order with none dropped, also when the chunk finds the previous
\* session torn down and a new one is created for it.
C15_ChunksWrittenInOrder ==
    [][\A c \in Conns :
          (AudioChunk(c, 1) /\ InCall(c))
          => /\ Has(streams', event'.wrote)
             /\ streams'[event'.wrote].socketId = c
             /\ ~streams'[event'.wrote].destroyed
             /\ Has(activeSpeechStreams', c)
             /\ activeSpeechStreams'[c] = event'.wrote
             /\ \A s \in DOMAIN streams : streams'[s] = streams[s]]_vars

\* A chunk of a connection in a call with another connection has just been
\* written to a session created for it, after an earlier session of the
\* connection was torn down.
C15_Witness ==
    /\ event.type = "audioChunk" /\ event.bytes = 1
    /\ InCall(event.id) /\ PeerOf(event.id) # event.id
    /\ event.opened # 0 /\ event.wrote = event.opened
    /\ \E s \in DOMAIN streams :
          /\ s # event.opened
          /\ streams[s].socketId = event.id
          /\ streams[s].destroyed

\* The source-language set of a settings record: the primary source language
\* and the recognition languages.
SourceSet(langs) == <<langs.sourceLanguage, langs.sttSourceLanguages>>

\* C16: a language-settings update tears down the connection's active
\* session if and only if the new source-language set differs structurally
\* from the previous one; otherwise the session stays live and not destroyed.
C16_TeardownIffSourceSetDiffers ==
    [][\A c \in Conns, data \in LangInputs :
          ( /\ UpdateLanguageSettings(c, data)
            /\ Has(userLanguages, c)
            /\ Has(activeSpeechStreams, c) )
          => IF SourceSet(userLanguages[c]) # SourceSet(data)
             THEN ~Has(activeSpeechStreams', c)
             ELSE /\ Has(activeSpeechStreams', c)
                  /\ activeSpeechStreams'[c] = activeSpeechStreams[c]
                  /\ ~streams'[activeSpeechStreams[c]].destroyed]_vars

\* C17: the expiry of a renewal timer affects only the session it was armed
\* for: when that session is no longer the connection's live session the
\* expiry changes no map, and it never removes a replacement session created
\* later for the same connection.
C17_TimerAffectsOwnSessionOnly ==
    [][\A s \in 1..MaxStreams :
          ( /\ TimerFire(s)
            /\ ~( /\ Has(activeSpeechStreams, streams[s].socketId)
                  /\ activeSpeechStreams[streams[s].socketId] = s ) )
          => UNCHANGED maps]_vars

\* A final, non-empty transcript of a speaker in a call with another
\* registered connection, detected in the speaker's configured source language.
FinalInConfiguredLanguage ==
    /\ event.type = "data" /\ event.isFinal /\ event.text # NoText
    /\ InCall(event.id) /\ PeerOf(event.id) # event.id
    /\ Has(streams, event.stream)
    /\ event.detected = streams[event.stream].currentLangs.sourceLanguage

\* C18: the translation decision and the target parameter for a final
\* transcript use the target language the speaker's current peer has when the
\* transcript event is handled, also after the peer changed it mid-call.
C18_CurrentPeerTargetUsed ==
    FinalInConfiguredLanguage
    => event.calls =
          IF Primary(event.detected) = Primary(PeerTarget(event.id))
          THEN {}
          ELSE {[contents |-> event.text,
                 sourceLanguageCode |-> Primary(event.detected),
                 targetLanguageCode |-> Primary(PeerTarget(event.id))]}

\* The presence directory and the language settings.
registry == <<usernameToSocketId, socketIdToUsername, userLanguages>>

\* C19: an end-call event from a connection in a call notifies the peer,
\* removes the association on both sides and tears down the departing
\* connection's session, and leaves the presence directory and the language
\* settings unchanged: the connection stays registered under its name.
C19_EndCallKeepsRegistration ==
    [][\A c \in Conns :
          (DisconnectCall(c) /\ InCall(c) /\ PeerOf(c) # c)
          => /\ emitted' = {Msg("peerDisconnected", PeerOf(c), NoKey, NoText, FALSE)}
             /\ ~Has(activeCalls', c)
             /\ ~Has(activeCalls', PeerOf(c))
             /\ ~Has(activeSpeechStreams', c)
             /\ UNCHANGED registry]_vars

\* A provider stream exists after the step that did not exist before it.
StreamOpened == DOMAIN streams' \ DOMAIN streams # {}

\* No reaction but a non-empty audio chunk of c gives c a session or opens a
\* provider stream: a torn-down session is not re-created by itself.
NoAutomaticRetry ==
    /\ \A c \in Conns :
          (~Has(activeSpeechStreams, c) /\ Has(activeSpeechStreams', c))
          => AudioChunk(c, 1)
    /\ StreamOpened => \E c \in Conns : AudioChunk(c, 1)

\* A non-empty chunk of a connection in a call that has no session opens
\* exactly one stream, configured from the connection's current settings,
\* makes it the live session and is written to it.
LazyRecreation ==
    \A c \in Conns :
        (AudioChunk(c, 1) /\ InCall(c) /\ ~Has(activeSpeechStreams, c))
        => /\ DOMAIN streams' = DOMAIN streams \cup {event'.opened}
           /\ event'.opened \notin DOMAIN streams
           /\ \A s \in DOMAIN streams : streams'[s] = streams[s]
           /\ activeSpeechStreams' = MapSet(activeSpeechStreams, c, event'.opened)
           /\ event'.wrote = event'.opened
           /\ LET st == streams'[event'.opened] IN
                 /\ st.socketId = c /\ ~st.destroyed
                 /\ st.currentLangs = userLanguages[c]
                 /\ st.languageCode = userLanguages[c].sourceLanguage
                 /\ st.alternativeLanguageCodes = Alternatives(userLanguages[c])

\* C20: after a session is torn down by a provider error or by the renewal
\* deadline while the connection stays in a call, no session is created until
\* audio arrives, and the next non-empty chunk creates exactly one fresh
\* session with the connection's current language settings and is written to it.
C20_LazyRecreationAfterTeardown == [][NoAutomaticRetry /\ LazyRecreation]_vars

\* A chunk of a connection in a call with another connection has just
\* created a session and was written to it, after the provider failed the
\* connection's previous stream.
C20_Witness ==
    /\ event.type = "audioChunk" /\ event.bytes = 1
    /\ InCall(event.id) /\ PeerOf(event.id) # event.id
    /\ event.opened # 0 /\ event.wrote = event.opened
    /\ Has(activeSpeechStreams, event.id)
    /\ activeSpeechStreams[event.id] = event.opened
    /\ streams[event.opened].currentLangs = userLanguages[event.id]
    /\ \E s \in DOMAIN streams :
          /\ s # event.opened
          /\ streams[s].socketId = event.id
          /\ streams[s].errored

====
